---- MODULE Spec2Model ----
(***************************************************************************)
(* Mortgage simulator (src/mortgage.js) run by a driver that, like         *)
(* src/test_mortgage.js, simulates one loan under several amortization     *)
(* amounts and both strategies and keeps every result.                     *)
(*                                                                         *)
(* Numbers.  The program computes with IEEE doubles.  Here a finite amount *)
(* of money is an integer number of units, 10000 units to 1.00, and the    *)
(* value of every multiplication or division is rounded to the nearest     *)
(* unit (additions and subtractions are exact).  The one non-finite value  *)
(* that reaches the program's variables, NaN, is the value NaN below; it   *)
(* propagates through arithmetic and makes every comparison false, as in   *)
(* JavaScript.  annualRate is an integer number of hundredths of a percent *)
(* (255 is 2.55 %).                                                        *)
(***************************************************************************)
EXTENDS Integers, Sequences, FiniteSets

\* ---------------------------------------------------------------- numbers

\* The literal 0.01 of the loop guard, in units.
Tolerance == 100

\* JavaScript's NaN: a value no finite amount of the model takes.
NaN == -2000000000

IsNaN(x) == x = NaN

\* a + b, a - b, a > b and Math.max(0, a) on doubles.
Plus(a, b) == IF IsNaN(a) \/ IsNaN(b) THEN NaN ELSE a + b

Minus(a, b) == IF IsNaN(a) \/ IsNaN(b) THEN NaN ELSE a - b

Gt(a, b) == ~IsNaN(a) /\ ~IsNaN(b) /\ a > b

\* a <= b, a >= b and a == b on doubles, for the properties below.
Le(a, b) == ~IsNaN(a) /\ ~IsNaN(b) /\ a <= b

Ge(a, b) == Le(b, a)

Eq(a, b) == ~IsNaN(a) /\ ~IsNaN(b) /\ a = b

Max0(a) == IF IsNaN(a) THEN NaN ELSE IF a > 0 THEN a ELSE 0

\* n / d rounded to the nearest integer (d > 0), halves upward.
Round(n, d) == (2 * n + d) \div (2 * d)

\* ------------------------------------------------------ rate/payment math

\* annualRate / 12 / 100, kept as the exact fraction num / den (annualRate
\* is in hundredths of a percent, hence the third factor).
getMonthlyRate(annualRate) ==
    [num |-> annualRate, den |-> 12 * 100 * 100]

\* balance * rate.
TimesRate(x, rate) == IF IsNaN(x) THEN NaN ELSE Round(x * rate.num, rate.den)

\* calculateRemainingMonths.  For rate = 0 the result is principal / payment.
\* Otherwise it is n = -log(arg) / log(1 + rate) with
\* arg = 1 - rate * principal / payment:
\*   arg < 0  : Math.log gives NaN, so n is NaN;
\*   arg = 0  : Math.log gives -Infinity, so n is +Infinity;
\*   arg > 0  : n is the finite number of payments of `payment` that clear
\*              `principal`; n > 0 exactly when arg < 1.
\* The finite n is not a number of units: it is carried as the pair
\* (principal, payment) that determines it, with its class in `is`.
calculateRemainingMonths(principal, rate, payment) ==
    LET sgn == rate.den * payment - rate.num * principal   \* sign of arg (payment > 0)
        is == IF IsNaN(principal) \/ IsNaN(payment) THEN "NaN"
              ELSE IF rate.num = 0
                   THEN IF payment = 0
                        THEN (IF principal > 0 THEN "Infinity"
                              ELSE IF principal = 0 THEN "NaN" ELSE "nonpositive")
                        ELSE IF (principal > 0 /\ payment > 0) \/ (principal < 0 /\ payment < 0)
                             THEN "positive" ELSE "nonpositive"
              ELSE IF payment = 0 THEN "NaN"
              ELSE IF payment > 0
                   THEN IF sgn < 0 THEN "NaN"
                        ELSE IF sgn = 0 THEN "Infinity"
                        ELSE IF principal > 0 THEN "positive" ELSE "nonpositive"
                   ELSE IF sgn > 0 THEN "NaN"
                        ELSE IF sgn = 0 THEN "Infinity"
                        ELSE IF principal < 0 THEN "positive" ELSE "nonpositive"
    IN  [is |-> is, principal |-> principal, payment |-> payment]

\* remainingN > 0 (false for NaN, true for +Infinity).
IsPositive(n) == n.is \in {"positive", "Infinity"}

\* calculateMonthlyPayment(principal, rate, n) for the n above.
\*   rate = 0: principal / n = principal * n.payment / n.principal
\*             (0 for n = +Infinity).
\*   rate > 0: principal * (rate * g) / (g - 1) with g = (1 + rate)^n.
\*             For finite n, g = 1 / arg = n.payment / (n.payment - rate * n.principal),
\*             so g / (g - 1) = n.payment / (rate * n.principal) and the value is
\*             principal * n.payment / n.principal.  For n = +Infinity, g is
\*             Infinity and the quotient Infinity / Infinity is NaN.
calculateMonthlyPayment(principal, rate, n) ==
    IF IsNaN(principal) \/ n.is = "NaN" THEN NaN
    ELSE IF n.is = "Infinity" THEN (IF rate.num = 0 THEN 0 ELSE NaN)
    ELSE Round(principal * n.payment, n.principal)

\* ------------------------------------------------------------ the inputs

\* Safety break of the loop: 100 years.
MAX_MONTHS == 1200

\* The loans simulated: principal, monthlyPayment and the amortization
\* amounts in units, annualRate in hundredths of a percent.  Every loan comes
\* with two amortization amounts, amortizationAmount <= largerAmount.  A grid
\* of loans that are paid off in two to four years, and four loans at the
\* edges: a payment equal to the first month's interest, a payment below it,
\* an interest-free loan whose payments need more than MAX_MONTHS months, and
\* an interest-free loan whose payments leave less than 0.01.
MaxPrincipalStep == 1

MaxPaymentStep == 1

Principals == {100000 + 20000 * k : k \in 0..MaxPrincipalStep}

Rates == {0, 255}

Payments == {3500 + 700 * k : k \in 0..MaxPaymentStep}

Amounts == {1000, 5000}

Increases == {2000, 15000}

EdgeLoans ==
    {[principal |-> 100000, annualRate |-> 120, monthlyPayment |-> 100,
      amortizationAmount |-> 20000, largerAmount |-> 40000],
     [principal |-> 800000, annualRate |-> 120, monthlyPayment |-> 403,
      amortizationAmount |-> 401000, largerAmount |-> 402000],
     [principal |-> 100000, annualRate |-> 0, monthlyPayment |-> 80,
      amortizationAmount |-> 40000, largerAmount |-> 50000],
     [principal |-> 100050, annualRate |-> 0, monthlyPayment |-> 4000,
      amortizationAmount |-> 1000, largerAmount |-> 20000]}

Loans ==
    {[principal |-> p, annualRate |-> r, monthlyPayment |-> m,
      amortizationAmount |-> a, largerAmount |-> a + i] :
        p \in Principals, r \in Rates, m \in Payments, a \in Amounts, i \in Increases}
        \cup EdgeLoans

\* The calls of simulate made for a loan, in order: both strategies with each
\* of the loan's amortization amounts, then the base case without
\* amortization.
Variants ==
    <<[amount |-> "amortizationAmount", strategy |-> "quota"],
      [amount |-> "largerAmount", strategy |-> "quota"],
      [amount |-> "amortizationAmount", strategy |-> "term"],
      [amount |-> "largerAmount", strategy |-> "term"],
      [amount |-> "none", strategy |-> "term"],
      [amount |-> "none", strategy |-> "quota"]>>

\* ------------------------------------------------------------- the state

VARIABLES
    loan,            \* the loan and its two amortization amounts
    call,            \* index in Variants of the current call of simulate
    pc,              \* "call", "loop" or "done"
    balance, currentPayment, totalInterest, totalPaid, months, schedule,
    results          \* what the finished calls returned, in call order

vars == <<loan, call, pc, balance, currentPayment, totalInterest, totalPaid,
          months, schedule, results>>

locals == <<balance, currentPayment, totalInterest, totalPaid, months, schedule>>

\* The amortizationAmount of call k.
AmountOf(k) ==
    IF Variants[k].amount = "none" THEN 0
    ELSE IF Variants[k].amount = "largerAmount" THEN loan.largerAmount
    ELSE loan.amortizationAmount

\* The params object of the current call.
params ==
    [principal |-> loan.principal, annualRate |-> loan.annualRate,
     monthlyPayment |-> loan.monthlyPayment,
     amortizationAmount |-> AmountOf(call),
     strategy |-> Variants[call].strategy]

rate == getMonthlyRate(loan.annualRate)

Init ==
    /\ loan \in Loans
    /\ call = 1
    /\ pc = "call"
    /\ balance = 0
    /\ currentPayment = 0
    /\ totalInterest = 0
    /\ totalPaid = 0
    /\ months = 0
    /\ schedule = <<>>
    /\ results = <<>>

\* ----------------------------------------------------- simulate, by parts

LoopGuardNoCeiling(b, m) == Gt(b, Tolerance)

LoopGuardNoTolerance(b, m) == Gt(b, 0) /\ m < MAX_MONTHS

\* The loop condition.
LoopGuard(b, m) == Gt(b, Tolerance) /\ m < MAX_MONTHS

\* 1. interest of the month.
Interest(b) == TimesRate(b, rate)

\* 2. the payment, capped at what clears the loan.
CappedPayment(cp, b, interest) ==
    IF Gt(cp, Plus(b, interest)) THEN Plus(b, interest) ELSE cp

AfterPaymentSwapped(b, payment, interest) == Minus(b, Minus(interest, payment))

AfterPaymentNoInterest(b, payment, interest) == Minus(b, payment)

\* 3. the balance after the payment: balance -= payment - interest.
AfterPayment(b, payment, interest) == Minus(b, Minus(payment, interest))

AmortizationDueAnyAmount(m, b, amount) == m % 12 = 0 /\ Gt(b, 0)

\* 4. whether the annual amortization applies in month m at balance b.
AmortizationDue(m, b, amount) == m % 12 = 0 /\ Gt(b, 0) /\ amount > 0

ExtraPaymentBorrowed(b, amount) == IF Gt(amount, b) THEN b ELSE 0 - amount

\* The extra payment of a month in which amortization applies.
ExtraPayment(b, amount) == IF Gt(amount, b) THEN b ELSE amount

RecomputeOldBalance(strategy, b, extra, cp) ==
    IF strategy = "quota"
    THEN LET remainingN == calculateRemainingMonths(Plus(b, extra), rate, cp)
         IN  IF IsPositive(remainingN)
             THEN calculateMonthlyPayment(Plus(b, extra), rate, remainingN)
             ELSE cp
    ELSE cp

RecomputeSwapped(strategy, b, extra, cp) ==
    IF strategy = "term"
    THEN LET remainingN == calculateRemainingMonths(Plus(b, extra), rate, cp)
         IN  IF IsPositive(remainingN)
             THEN calculateMonthlyPayment(b, rate, remainingN)
             ELSE cp
    ELSE cp

\* The strategy logic: currentPayment after an extra payment `extra` that
\* left balance b.
Recompute(strategy, b, extra, cp) ==
    IF strategy = "quota"
    THEN LET remainingN == calculateRemainingMonths(Plus(b, extra), rate, cp)
         IN  IF IsPositive(remainingN)
             THEN calculateMonthlyPayment(b, rate, remainingN)
             ELSE cp
    ELSE cp

\* The schedule entry pushed at the end of a month.
Entry(m, b, interest, payment, extra, ti) ==
    [month |-> m, balance |-> Max0(b), interest |-> interest,
     payment |-> Plus(payment, extra), accumulatedInterest |-> ti]

\* The returned object.
Result ==
    [schedule |-> schedule, totalInterest |-> totalInterest,
     totalYears |-> <<months, 12>>, totalPaid |-> totalPaid,
     finalMonth |-> months]

\* ------------------------------------------------------------ the actions

\* simulate is called: its locals are initialised.
Call ==
    /\ pc = "call"
    /\ balance' = params.principal
    /\ currentPayment' = params.monthlyPayment
    /\ totalInterest' = 0
    /\ totalPaid' = 0
    /\ months' = 0
    /\ schedule' = <<>>
    /\ pc' = "loop"
    /\ UNCHANGED <<loan, call, results>>

\* One iteration of the loop.
Month ==
    /\ pc = "loop"
    /\ LoopGuard(balance, months)
    /\ LET m == months + 1
           interest == Interest(balance)
           payment == CappedPayment(currentPayment, balance, interest)
           b1 == AfterPayment(balance, payment, interest)
           due == AmortizationDue(m, b1, params.amortizationAmount)
           extraPayment == IF due THEN ExtraPayment(b1, params.amortizationAmount) ELSE 0
           b2 == Minus(b1, extraPayment)
       IN  /\ months' = m
           /\ totalInterest' = Plus(totalInterest, interest)
           /\ totalPaid' = Plus(Plus(totalPaid, payment), extraPayment)
           /\ balance' = b2
           /\ currentPayment' = IF due
                                THEN Recompute(params.strategy, b2, extraPayment, currentPayment)
                                ELSE currentPayment
           /\ schedule' = Append(schedule,
                                 Entry(m, b2, interest, payment, extraPayment, totalInterest'))
    /\ UNCHANGED <<loan, call, pc, results>>

\* The loop has ended: simulate returns, and the driver makes its next call.
Return ==
    /\ pc = "loop"
    /\ ~LoopGuard(balance, months)
    /\ results' = Append(results, Result)
    /\ IF call < Len(Variants)
       THEN call' = call + 1 /\ pc' = "call"
       ELSE call' = call /\ pc' = "done"
    /\ UNCHANGED <<loan, locals>>

Next == Call \/ Month \/ Return

Spec == Init /\ [][Next]_vars

\* --------------------------------------------------- the driver's results

\* The call (index in Variants) made with amount a ("none",
\* "amortizationAmount" or "largerAmount") and strategy s.
CallOf(a, s) ==
    CHOOSE k \in 1..Len(Variants) : Variants[k] = [amount |-> a, strategy |-> s]

Returned(k) == Len(results) >= k

\* The balance a finished call ended with: that of its last schedule entry,
\* the principal when no month was simulated.
FinalBalance(r) ==
    IF r.finalMonth = 0 THEN loan.principal ELSE r.schedule[r.finalMonth].balance

\* ------------------------------------------------------------------- C1

\* What is left to do: calls still to make, then months still allowed.
Rank ==
    (Len(Variants) - call) * (MAX_MONTHS + 2)
        + (CASE pc = "call" -> MAX_MONTHS + 1
             [] pc = "loop" -> MAX_MONTHS - months
             [] OTHER -> 0 - 1)

WellFormed(r) ==
    /\ r.finalMonth <= MAX_MONTHS
    /\ Len(r.schedule) = r.finalMonth
    /\ \A i \in 1..Len(r.schedule) : r.schedule[i].month = i

C1_State ==
    /\ months <= MAX_MONTHS
    /\ Len(schedule) = months
    /\ months > 0 => schedule[months].month = months
    /\ pc # "done" => ENABLED Next
    /\ (pc = "loop" /\ months = MAX_MONTHS) => (ENABLED Return /\ ~ENABLED Month)
    /\ (pc # "loop" /\ results # <<>>) => WellFormed(results[Len(results)])

\* C1: every call of simulate terminates (each step lowers Rank, and a step
\* is possible until the last call has returned), never simulates more than
\* MAX_MONTHS months, returns a schedule as long as finalMonth whose month
\* fields are 1, 2, ..., finalMonth, and at the ceiling returns what it has.
C1_TerminatesWithinCeiling == [](C1_State) /\ [][Rank' < Rank]_vars

\* A call returned at the ceiling, with all MAX_MONTHS entries.
C1_Witness ==
    \E k \in 1..Len(results) :
        /\ results[k].finalMonth = MAX_MONTHS
        /\ Len(results[k].schedule) = MAX_MONTHS
        /\ Gt(FinalBalance(results[k]), Tolerance)

\* ------------------------------------------------------------------- C2

\* The balance recorded before entry i of the running schedule.
PrevBalance(i) == IF i = 1 THEN loan.principal ELSE schedule[i - 1].balance

NonIncreasing == \A i \in 1..Len(schedule) : Le(schedule[i].balance, PrevBalance(i))

\* monthlyPayment >= principal * rate, in exact arithmetic.
CoversFirstInterest == loan.monthlyPayment * rate.den >= rate.num * loan.principal

\* C2 as claimed: for every valid input the recorded balance never
\* increases from one entry to the next, nor from the principal to entry 1.
C2_Original == NonIncreasing

C2_Term ==
    (pc = "loop" /\ params.strategy = "term" /\ CoversFirstInterest) => NonIncreasing

C2_Step ==
    (pc = "loop" /\ months' = months + 1 /\ Ge(currentPayment, Interest(balance)))
        => Le(schedule'[months'].balance, PrevBalance(months'))

\* C2, amended: the recorded balance does not increase in a month whose
\* payment in force covers the month's interest (currentPayment >= balance *
\* rate), under either strategy; so it never increases under 'term' when
\* monthlyPayment >= principal * rate.
C2_BalanceNonIncreasing == [](C2_Term) /\ [][C2_Step]_vars

\* A 'term' run with extra payments in its second year, the balance falling.
C2_Witness ==
    /\ pc = "loop"
    /\ params.strategy = "term"
    /\ params.amortizationAmount > 0
    /\ CoversFirstInterest
    /\ months >= 13
    /\ schedule[13].balance < schedule[12].balance
    /\ schedule[12].balance < schedule[11].balance

\* ------------------------------------------------------------------- C3

\* C3 as claimed: after every month, and in every returned result,
\* totalPaid == totalInterest + (principal - balance).
C3_Original ==
    /\ pc = "loop" =>
          Eq(totalPaid, Plus(totalInterest, Minus(loan.principal, balance)))
    /\ \A k \in 1..Len(results) :
          Eq(results[k].totalPaid,
             Plus(results[k].totalInterest,
                  Minus(loan.principal, FinalBalance(results[k]))))

\* ------------------------------------------------------------------- C4

\* The least integer >= n / d (n >= 0, d > 0).
Ceil(n, d) == (n + d - 1) \div d

Min(a, b) == IF a < b THEN a ELSE b

\* The returned results of the interest-free calls without amortization.
ZeroRateResults ==
    {results[k] : k \in {j \in 1..Len(results) :
                            /\ loan.annualRate = 0
                            /\ AmountOf(j) = 0}}

\* C4 as claimed: such a call returns totalInterest == 0 and
\* finalMonth == ceil(principal / monthlyPayment).
C4_Original ==
    \A r \in ZeroRateResults :
        /\ r.totalInterest = 0
        /\ r.finalMonth = Ceil(loan.principal, loan.monthlyPayment)

\* C4, amended: such a call returns totalInterest == 0 and finalMonth ==
\* min(1200, ceil((principal - 0.01) / monthlyPayment)): the loop stops at the
\* ceiling, and as soon as no more than 0.01 is left.
C4_ZeroRateMonths ==
    \A r \in ZeroRateResults :
        /\ r.totalInterest = 0
        /\ r.finalMonth =
              Min(MAX_MONTHS,
                  Ceil(IF loan.principal > Tolerance THEN loan.principal - Tolerance ELSE 0,
                       loan.monthlyPayment))

\* An interest-free call that stopped with a rest of at most 0.01, one month
\* before ceil(principal / monthlyPayment).
C4_Witness ==
    \E r \in ZeroRateResults :
        /\ r.finalMonth = Ceil(loan.principal, loan.monthlyPayment) - 1
        /\ FinalBalance(r) > 0
        /\ r.finalMonth < MAX_MONTHS

\* ------------------------------------------------------------------- C5

\* The results of the two calls without amortization.
BaseTerm == results[CallOf("none", "term")]

BaseQuota == results[CallOf("none", "quota")]

C5_Same == Returned(CallOf("none", "quota")) => BaseTerm = BaseQuota

C5_PaymentKept ==
    (pc = "loop" /\ params.amortizationAmount = 0) => currentPayment' = currentPayment

\* C5: with amortizationAmount = 0 the 'term' call and the 'quota' call
\* return identical results (schedule, totalInterest, totalPaid, totalYears,
\* finalMonth), and no step of such a call changes currentPayment.
C5_StrategiesAgreeWithoutAmortization == [](C5_Same) /\ [][C5_PaymentKept]_vars

\* Both calls returned, after running past month 12 with interest.
C5_Witness ==
    /\ Returned(CallOf("none", "quota"))
    /\ loan.annualRate > 0
    /\ BaseTerm.finalMonth > 12
    /\ BaseQuota.finalMonth > 12
    /\ BaseQuota.totalInterest > 0

\* ------------------------------------------------------------------- C6

\* monthlyPayment > principal * rate, in exact arithmetic.
ExceedsFirstInterest == loan.monthlyPayment * rate.den > rate.num * loan.principal

\* Pairs of amounts, the second at least the first.
AmountPairs ==
    {<<"none", "amortizationAmount">>, <<"amortizationAmount", "largerAmount">>,
     <<"none", "largerAmount">>}

\* The call with the larger amount has no more interest and no more months.
NoWorse(p, s) ==
    LET less == CallOf(p[1], s)
        more == CallOf(p[2], s)
    IN  (Returned(less) /\ Returned(more)) =>
            /\ Le(results[more].totalInterest, results[less].totalInterest)
            /\ results[more].finalMonth <= results[less].finalMonth

\* C6 as claimed: under either strategy, a larger amortizationAmount never
\* gives more totalInterest or a larger finalMonth.
C6_Original == \A p \in AmountPairs : NoWorse(p, "term") /\ NoWorse(p, "quota")

\* C6, amended: a larger amortizationAmount never gives more totalInterest or
\* a larger finalMonth under 'term', nor under 'quota' when monthlyPayment
\* exceeds the first month's interest.
C6_MoreAmortizationNoWorse ==
    \A p \in AmountPairs :
        /\ NoWorse(p, "term")
        /\ ExceedsFirstInterest => NoWorse(p, "quota")

\* All calls returned for a loan with interest; under 'quota' each larger
\* amount saved interest, under 'term' it also saved months.
C6_Witness ==
    /\ pc = "done"
    /\ ExceedsFirstInterest
    /\ \A p \in {<<"none", "amortizationAmount">>, <<"amortizationAmount", "largerAmount">>} :
          /\ results[CallOf(p[2], "quota")].totalInterest
                < results[CallOf(p[1], "quota")].totalInterest
          /\ results[CallOf(p[2], "term")].finalMonth
                < results[CallOf(p[1], "term")].finalMonth

\* ------------------------------------------------------------------- C7

\* The loan converges: its base case ended with no more than 0.01 left.
Converges == Returned(CallOf("none", "term")) /\ Le(FinalBalance(BaseTerm), Tolerance)

PositiveAmounts == {"amortizationAmount", "largerAmount"}

Differ(a, b) == IF a > b THEN a - b ELSE b - a

\* An extra payment was made in the last month of result r (the entry's
\* payment is the regular payment, that of the month before, plus the extra).
ExtraInLastMonth(r) ==
    /\ r.finalMonth > 1
    /\ r.finalMonth % 12 = 0
    /\ Gt(r.schedule[r.finalMonth].payment, r.schedule[r.finalMonth - 1].payment)

C7_NeverRaised ==
    (pc = "loop" /\ params.strategy = "quota" /\ ExceedsFirstInterest)
        => Le(currentPayment', currentPayment)

C7_SameMonth ==
    \A a \in PositiveAmounts :
        Converges => Differ(results[CallOf(a, "quota")].finalMonth, BaseTerm.finalMonth) <= 1

C7_Months ==
    \A a \in PositiveAmounts :
        LET q == results[CallOf(a, "quota")]
        IN  Converges =>
                /\ q.finalMonth <= BaseTerm.finalMonth
                /\ ~ExtraInLastMonth(q) => q.finalMonth >= BaseTerm.finalMonth - 1

C8_Less(a) ==
    results[CallOf(a, "quota")].totalInterest < BaseTerm.totalInterest

C8_TermAtMost(a) ==
    Le(results[CallOf(a, "term")].totalInterest, results[CallOf(a, "quota")].totalInterest)

BeforeExtra ==
    AfterPayment(balance,
                 CappedPayment(currentPayment, balance, Interest(balance)),
                 Interest(balance))

\* The step is a recompute whose precondition is violated:
\* currentPayment <= rate * (balance + extraPayment).
DegenerateRecompute ==
    /\ pc = "loop"
    /\ params.strategy = "quota"
    /\ months' = months + 1
    /\ AmortizationDue(months', BeforeExtra, params.amortizationAmount)
    /\ ~IsNaN(currentPayment)
    /\ currentPayment * rate.den <= rate.num * BeforeExtra

NoNaN ==
    /\ ~IsNaN(currentPayment) /\ ~IsNaN(balance)
    /\ ~IsNaN(totalInterest) /\ ~IsNaN(totalPaid)
    /\ \A i \in 1..Len(schedule) :
          /\ ~IsNaN(schedule[i].balance) /\ ~IsNaN(schedule[i].payment)
          /\ ~IsNaN(schedule[i].interest) /\ ~IsNaN(schedule[i].accumulatedInterest)

\* C9 as claimed: a recompute whose precondition is violated leaves
\* currentPayment unchanged, and no NaN ever reaches currentPayment, balance,
\* the totals or a schedule entry.
C9_Original == [](NoNaN) /\ [][DegenerateRecompute => currentPayment' = currentPayment]_vars

\* ------------------------------------------------------------------ C10

\* What C10 claims of a returned 'term' call: it ran to the ceiling and left
\* more than 0.01.
NeverPaidOff(r) == r.finalMonth = MAX_MONTHS /\ Gt(FinalBalance(r), Tolerance)

\* C10 as claimed: under 'term' with monthlyPayment <= principal * rate, for
\* every amortizationAmount >= 0.
C10_Original ==
    ~ExceedsFirstInterest =>
        \A a \in PositiveAmounts \cup {"none"} :
            Returned(CallOf(a, "term")) => NeverPaidOff(results[CallOf(a, "term")])

\* C10, amended: under 'term' with amortizationAmount = 0 and
\* monthlyPayment <= principal * rate, the call returns with
\* finalMonth == 1200 and a final balance above 0.01.
C10_NeverPaidOffWithoutAmortization ==
    (~ExceedsFirstInterest /\ Returned(CallOf("none", "term"))) => NeverPaidOff(BaseTerm)

\* A base case with a payment below the first month's interest: it returned
\* at the ceiling, owing more than the principal.
C10_Witness ==
    /\ Returned(CallOf("none", "term"))
    /\ loan.monthlyPayment * rate.den < rate.num * loan.principal
    /\ NeverPaidOff(BaseTerm)
    /\ FinalBalance(BaseTerm) > loan.principal

\* ------------------------------------------------------------------ C11

\* Parameter sets outside the valid domain, as the input listeners can
\* produce them (an empty or unparsable field becomes 0): a principal of 0
\* and below 0, a payment of 0 and below 0, a negative rate, a negative
\* amortization amount.
InvalidLoans ==
    {[principal |-> 0, annualRate |-> 255, monthlyPayment |-> 3500,
      amortizationAmount |-> 1000, largerAmount |-> 3000],
     [principal |-> 0 - 100000, annualRate |-> 255, monthlyPayment |-> 3500,
      amortizationAmount |-> 1000, largerAmount |-> 3000],
     [principal |-> 100000, annualRate |-> 0, monthlyPayment |-> 0,
      amortizationAmount |-> 40000, largerAmount |-> 50000],
     [principal |-> 100000, annualRate |-> 0, monthlyPayment |-> 0 - 100,
      amortizationAmount |-> 40000, largerAmount |-> 50000],
     [principal |-> 100000, annualRate |-> 0 - 120, monthlyPayment |-> 3500,
      amortizationAmount |-> 1000, largerAmount |-> 3000],
     [principal |-> 100000, annualRate |-> 255, monthlyPayment |-> 3500,
      amortizationAmount |-> 0 - 1000, largerAmount |-> 3000]}

InitInvalid ==
    /\ loan \in InvalidLoans
    /\ call = 1
    /\ pc = "call"
    /\ balance = 0
    /\ currentPayment = 0
    /\ totalInterest = 0
    /\ totalPaid = 0
    /\ months = 0
    /\ schedule = <<>>
    /\ results = <<>>

\* The driver run on the invalid parameter sets.
SpecInvalid == InitInvalid /\ [][Next]_vars

\* The parameters of call k are invalid.
InvalidParameters(k) ==
    \/ loan.principal <= 0
    \/ loan.monthlyPayment <= 0
    \/ loan.annualRate < 0
    \/ AmountOf(k) < 0

\* r is an ordinary result: the object with a schedule and the totals.
IsOrdinaryResult(r) ==
    {"schedule", "totalInterest", "totalYears", "totalPaid", "finalMonth"}
        \subseteq DOMAIN r

\* C11 as claimed: a call of simulate with invalid parameters never returns
\* an ordinary result (schedule and totals); it is rejected with a
\* distinguishable InvalidParameters outcome.
C11_Original ==
    \A k \in 1..Len(results) : InvalidParameters(k) => ~IsOrdinaryResult(results[k])

====
